---- MODULE Spec2Model ----
(***************************************************************************)
(* Model of the label printing dialogs of Spoolman's web client:           *)
(*   client/src/components/printing/printingDialog.tsx   (PrintingDialog)  *)
(*   client/src/components/printing/qrCodePrintingDialog.tsx               *)
(*                                                (QRCodePrintingDialog)   *)
(* PrintingDialog is a function of its props (printSettings, items) and of *)
(* its hook state (previewScale); a render turns them into a list of pages,*)
(* each a table of rows of cells.  Its controls change printSettings and   *)
(* hand it to the setPrintSettings prop.  QRCodePrintingDialog turns QR    *)
(* code records into items and renders PrintingDialog with them and with   *)
(* the printSettings nested in its own settings.                           *)
(*                                                                         *)
(* Conventions.                                                            *)
(*  - An optional value (a field that may be undefined) is a sequence of   *)
(*    length at most one: None is undefined, Some(v) is the value v.       *)
(*  - Lengths are millimetres; the inputs are integers, a quotient is an   *)
(*    exact fraction [num, den] in lowest terms with den > 0.              *)
(*  - An item is a positive integer (its identity); the placeholder        *)
(*    <></> that fills a skipped cell is 0.  An item made by the QR code   *)
(*    dialog is a record of what its element shows.                        *)
(*  - The settings object the mounted dialog was given is one object for   *)
(*    the whole time the dialog is mounted with it: printSettings (and     *)
(*    qrCodePrintSettings) is its present content.                         *)
(***************************************************************************)
EXTENDS Integers, Sequences, FiniteSets, TLC

VARIABLES printSettings, items, previewScale, out, remembered,
          dialog, qrCodePrintSettings, qrCodeData, stored, consumed

vars == <<printSettings, items, previewScale, out, remembered,
          dialog, qrCodePrintSettings, qrCodeData, stored, consumed>>

(***************************************************************************)
(* Bounds of the model.                                                    *)
(***************************************************************************)
MaxItems == 8
MaxGeomItems == 5
MaxRepeatItems == 3
MaxColumns == 3
MaxRows == 2
MaxSkip == 2
MaxCopies == 2
MaxEdits == 2
MaxQRCodes == 2

(***************************************************************************)
(* Optional values and JavaScript's `||`.                                  *)
(***************************************************************************)
None == <<>>
Some(v) == <<v>>

\* printSettings?.field
Get(ps, field) == IF ps = None THEN None ELSE ps[1][field]

\* number || d : undefined and 0 are falsy
OrNumber(opt, d) == IF opt = None THEN d ELSE IF opt[1] = 0 THEN d ELSE opt[1]

\* string || d : undefined and "" are falsy
OrString(opt, d) == IF opt = None THEN d ELSE IF opt[1] = "" THEN d ELSE opt[1]

\* object || d : only undefined is falsy
OrObject(opt, d) == IF opt = None THEN d ELSE opt[1]

Min(a, b) == IF a < b THEN a ELSE b
Max(a, b) == IF a > b THEN a ELSE b
Abs(a) == IF a < 0 THEN -a ELSE a

(***************************************************************************)
(* Exact fractions, standing for the JavaScript numbers a division yields. *)
(***************************************************************************)
RECURSIVE GCD(_, _)
GCD(a, b) == IF b = 0 THEN a ELSE GCD(b, a % b)

\* n / d, d # 0
Rat(n, d) ==
  LET g == GCD(Abs(n), Abs(d))
      s == IF d < 0 THEN -1 ELSE 1
  IN  [num |-> (s * n) \div g, den |-> (s * d) \div g]

\* r - k for an integer k
RatMinus(r, k) == Rat(r.num - k * r.den, r.den)

\* i < a / b, b # 0
LessThanQuot(i, a, b) == IF b > 0 THEN i * b < a ELSE i * b > a

(***************************************************************************)
(* paperDimensions                                                         *)
(***************************************************************************)
paperDimensions ==
  [A3      |-> [width |-> 297, height |-> 420],
   A4      |-> [width |-> 210, height |-> 297],
   A5      |-> [width |-> 148, height |-> 210],
   Letter  |-> [width |-> 216, height |-> 279],
   Legal   |-> [width |-> 216, height |-> 356],
   Tabloid |-> [width |-> 279, height |-> 432]]

(***************************************************************************)
(* The settings as the component reads them, defaults applied.             *)
(***************************************************************************)
margin(ps) ==
  OrObject(Get(ps, "margin"), [top |-> 10, bottom |-> 10, left |-> 10, right |-> 10])

printerMargin(ps) ==
  OrObject(Get(ps, "printerMargin"), [top |-> 5, bottom |-> 5, left |-> 5, right |-> 5])

spacing(ps) == OrObject(Get(ps, "spacing"), [horizontal |-> 0, vertical |-> 0])

paperColumns(ps) == OrNumber(Get(ps, "columns"), 3)

\* (mutant) the fallback for rows is 10
paperRows_Ten(ps) == OrNumber(Get(ps, "rows"), 10)

paperRows(ps) == OrNumber(Get(ps, "rows"), 8)

skipItems(ps) == OrNumber(Get(ps, "skipItems"), 0)

\* (mutant) the fallback with ??, which keeps a 0
itemCopies_Nullish(ps) ==
  IF Get(ps, "itemCopies") = None THEN 1 ELSE Get(ps, "itemCopies")[1]

itemCopies(ps) == OrNumber(Get(ps, "itemCopies"), 1)

paperSize(ps) == OrString(Get(ps, "paperSize"), "A4")

customPaperSize(ps) ==
  OrObject(Get(ps, "customPaperSize"), [width |-> 210, height |-> 297])

borderShowMode(ps) == OrString(Get(ps, "borderShowMode"), "grid")

\* the names every object inherits from Object.prototype: paperDimensions[name]
\* is a function or an object that has no width and no height
ObjectPrototypeNames ==
  {"constructor", "hasOwnProperty", "isPrototypeOf", "propertyIsEnumerable",
   "toLocaleString", "toString", "valueOf", "__proto__", "__defineGetter__",
   "__defineSetter__", "__lookupGetter__", "__lookupSetter__"}

\* the value of a missing property, and of arithmetic on it
Undefined == "undefined"
NaN == "NaN"

\* paperDimensions[paperSize] is not undefined: reading .width of it does not throw
paperResolves(ps) ==
  \/ paperSize(ps) = "custom"
  \/ paperSize(ps) \in DOMAIN paperDimensions
  \/ paperSize(ps) \in ObjectPrototypeNames

\* paperWidth and paperHeight are numbers
paperHasDimensions(ps) ==
  paperSize(ps) = "custom" \/ paperSize(ps) \in DOMAIN paperDimensions

\* (mutant) the custom size read with width and height swapped
paperWidth_Swapped(ps) ==
  IF paperSize(ps) = "custom" THEN customPaperSize(ps).height
  ELSE IF paperSize(ps) \in DOMAIN paperDimensions
  THEN paperDimensions[paperSize(ps)].width
  ELSE Undefined

paperWidth(ps) ==
  IF paperSize(ps) = "custom" THEN customPaperSize(ps).width
  ELSE IF paperSize(ps) \in DOMAIN paperDimensions
  THEN paperDimensions[paperSize(ps)].width
  ELSE Undefined

paperHeight(ps) ==
  IF paperSize(ps) = "custom" THEN customPaperSize(ps).height
  ELSE IF paperSize(ps) \in DOMAIN paperDimensions
  THEN paperDimensions[paperSize(ps)].height
  ELSE Undefined

\* (mutant) spacing subtracted once, after the division
itemWidth_SingleSpacing(ps) ==
  IF ~paperHasDimensions(ps) THEN NaN ELSE
  RatMinus(Rat(paperWidth(ps) - margin(ps).left - margin(ps).right, paperColumns(ps)),
           spacing(ps).horizontal)

\* (mutant) the cell is scaled by the preview scale
itemWidth_Preview(ps) ==
  IF ~paperHasDimensions(ps) THEN NaN ELSE
  RatMinus(Rat((paperWidth(ps) - margin(ps).left - margin(ps).right
                  - spacing(ps).horizontal) * previewScale,
               paperColumns(ps) * 100),
           spacing(ps).horizontal)

\* (mutant) a grid border is taken off the cell width
itemWidth_Bordered(ps) ==
  IF ~paperHasDimensions(ps) THEN NaN ELSE
  RatMinus(Rat(paperWidth(ps) - margin(ps).left - margin(ps).right - spacing(ps).horizontal,
               paperColumns(ps)),
           spacing(ps).horizontal + (IF borderShowMode(ps) = "grid" THEN 1 ELSE 0))

\* arithmetic on an undefined paperWidth gives NaN
itemWidth(ps) ==
  IF ~paperHasDimensions(ps) THEN NaN ELSE
  RatMinus(Rat(paperWidth(ps) - margin(ps).left - margin(ps).right - spacing(ps).horizontal,
               paperColumns(ps)),
           spacing(ps).horizontal)

itemHeight(ps) ==
  IF ~paperHasDimensions(ps) THEN NaN ELSE
  RatMinus(Rat(paperHeight(ps) - margin(ps).top - margin(ps).bottom - spacing(ps).vertical,
               paperRows(ps)),
           spacing(ps).vertical)

(***************************************************************************)
(* The expanded sequence, its rows and its pages.                          *)
(***************************************************************************)
Placeholder == 0

\* Array(n).fill(x); Array(n) throws a RangeError for n < 0
ArrayFill(n, x) == [k \in 1..n |-> x]

\* the concatenation of seqs[lo], ..., seqs[hi], in order
RECURSIVE flattenRange(_, _, _)
flattenRange(seqs, lo, hi) ==
  IF lo > hi THEN <<>>
  ELSE IF lo = hi THEN seqs[lo]
  ELSE LET mid == (lo + hi) \div 2
       IN  flattenRange(seqs, lo, mid) \o flattenRange(seqs, mid + 1, hi)

flatten(seqs) == flattenRange(seqs, 1, Len(seqs))

\* the number of passes of `for (i = 0; i < a / b; i += 1)`, b # 0: the least
\* i >= 0 that fails the test
loopCount(a, b) ==
  CHOOSE n \in 0..(Max(a, 0) + 1) :
    /\ \A i \in 0..(n - 1) : LessThanQuot(i, a, b)
    /\ ~LessThanQuot(n, a, b)

\* the inner loop, for (i = 0; i < itemCopies; i += 1) push(item): what one item
\* adds to the sequence
\* (mutant) the inner loop tests i <= itemCopies
pushCopies_OffByOne(item, copies) == ArrayFill(loopCount(copies, 1) + 1, item)

pushCopies(item, copies) == ArrayFill(loopCount(copies, 1), item)

\* (mutant) the skipped cells are pushed after the items
itemsIncludingSkipped_SkipAtEnd(ps, its) ==
  flatten([k \in 1..Len(its) |-> pushCopies(its[k], itemCopies(ps))])
    \o ArrayFill(skipItems(ps), Placeholder)

\* the skipped cells, then the outer loop over the items in order
itemsIncludingSkipped(ps, its) ==
  ArrayFill(skipItems(ps), Placeholder)
    \o flatten([k \in 1..Len(its) |-> pushCopies(its[k], itemCopies(ps))])

\* Array.prototype.slice(start, end)
sliceIndex(i, len) == IF i < 0 THEN Max(len + i, 0) ELSE Min(i, len)

slice(seq, start, end) ==
  SubSeq(seq, sliceIndex(start, Len(seq)) + 1, sliceIndex(end, Len(seq)))

\* (mutant) the chunking loop tests idx <= seq.length / size
chunks_Inclusive(seq, size) ==
  [k \in 1..(IF size > 0 THEN Len(seq) \div size + 1 ELSE 0) |->
     slice(seq, (k - 1) * size, k * size)]

\* for (idx = 0; idx < seq.length / size; idx += 1) push(seq.slice(idx*size, (idx+1)*size))
chunks(seq, size) ==
  [k \in 1..loopCount(Len(seq), size) |-> slice(seq, (k - 1) * size, k * size)]

rowsOfItems(ps, its) == chunks(itemsIncludingSkipped(ps, its), paperColumns(ps))

pageBlocks(ps, its) == chunks(rowsOfItems(ps, its), paperRows(ps))

(***************************************************************************)
(* The rendered pages.  rowIdx and colIdx count from 0, as in the source.  *)
(***************************************************************************)
\* (mutant) the paddings without Math.max(..., 0)
cell_NoClamp(ps, item, rowIdx, colIdx) ==
  [item          |-> item,
   width         |-> itemWidth(ps),
   height        |-> itemHeight(ps),
   border        |-> IF borderShowMode(ps) = "grid" THEN "1px solid #000" ELSE "none",
   paddingLeft   |-> IF colIdx = 0 THEN printerMargin(ps).left - margin(ps).left ELSE 0,
   paddingRight  |-> IF colIdx = paperColumns(ps) - 1
                     THEN printerMargin(ps).right - margin(ps).right ELSE 0,
   paddingTop    |-> IF rowIdx = 0 THEN printerMargin(ps).top - margin(ps).top ELSE 0,
   paddingBottom |-> IF rowIdx = paperRows(ps) - 1
                     THEN printerMargin(ps).bottom - margin(ps).bottom ELSE 0]

cell(ps, item, rowIdx, colIdx) ==
  [item          |-> item,
   width         |-> itemWidth(ps),
   height        |-> itemHeight(ps),
   border        |-> IF borderShowMode(ps) = "grid" THEN "1px solid #000" ELSE "none",
   paddingLeft   |-> IF colIdx = 0
                     THEN Max(printerMargin(ps).left - margin(ps).left, 0) ELSE 0,
   paddingRight  |-> IF colIdx = paperColumns(ps) - 1
                     THEN Max(printerMargin(ps).right - margin(ps).right, 0) ELSE 0,
   paddingTop    |-> IF rowIdx = 0
                     THEN Max(printerMargin(ps).top - margin(ps).top, 0) ELSE 0,
   paddingBottom |-> IF rowIdx = paperRows(ps) - 1
                     THEN Max(printerMargin(ps).bottom - margin(ps).bottom, 0) ELSE 0]

itemRows(ps, rows) ==
  [r \in 1..Len(rows) |->
     [c \in 1..Len(rows[r]) |-> cell(ps, rows[r][c], r - 1, c - 1)]]

\* calc(<mm>mm - 1px) with a border, calc(<mm>mm - 0px) without
areaMargin(ps, mm) == [mm |-> mm, px |-> IF borderShowMode(ps) # "none" THEN 1 ELSE 0]

\* the print-page of the paper's size and, in it, the print-page-area with its
\* border, size and margins, which holds the table of rows
page(ps, rows) ==
  [width        |-> paperWidth(ps),
   height       |-> paperHeight(ps),
   border       |-> IF borderShowMode(ps) # "none" THEN "1px solid #000" ELSE "none",
   areaHeight   |-> IF paperHasDimensions(ps)
                    THEN paperHeight(ps) - margin(ps).top - margin(ps).bottom ELSE NaN,
   areaWidth    |-> IF paperHasDimensions(ps)
                    THEN paperWidth(ps) - margin(ps).left - margin(ps).right ELSE NaN,
   marginTop    |-> areaMargin(ps, margin(ps).top),
   marginLeft   |-> areaMargin(ps, margin(ps).left),
   marginRight  |-> areaMargin(ps, margin(ps).right),
   marginBottom |-> areaMargin(ps, margin(ps).bottom),
   rows         |-> itemRows(ps, rows)]

pages(ps, its) ==
  LET blocks == pageBlocks(ps, its)
  IN  [p \in 1..Len(blocks) |-> page(ps, blocks[p])]

(***************************************************************************)
(* One render of the component.  A throw leaves nothing rendered.          *)
(***************************************************************************)
NoBorderSpacing == [horizontal |-> 0, vertical |-> 0]

NotRendered ==
  [status |-> "none", pages |-> <<>>, scale |-> 0, borderSpacing |-> NoBorderSpacing]

\* the pages, the scale of the print-container and the border-spacing of the
\* tables
PrintingDialog(ps, its, scale) ==
  IF ~paperResolves(ps)
  THEN [status |-> "TypeError", pages |-> <<>>, scale |-> 0,
        borderSpacing |-> NoBorderSpacing]
  ELSE IF skipItems(ps) < 0
  THEN [status |-> "RangeError", pages |-> <<>>, scale |-> 0,
        borderSpacing |-> NoBorderSpacing]
  ELSE [status |-> "ok", pages |-> pages(ps, its), scale |-> scale,
        borderSpacing |-> spacing(ps)]

(***************************************************************************)
(* QRCodePrintingDialog: the settings it reads and the items it makes.     *)
(* qs is the content of its printSettings prop without the nested          *)
(* printSettings; a QR code record has a value, and may have a label and   *)
(* an error level.                                                         *)
(***************************************************************************)
\* printSettings?.showContent === undefined ? true : printSettings?.showContent
showContent(qs) == IF qs.showContent = None THEN TRUE ELSE qs.showContent[1]

textSize(qs) == OrNumber(qs.textSize, 5)

showSpoolmanIcon(qs) ==
  IF qs.showSpoolmanIcon = None THEN TRUE ELSE qs.showSpoolmanIcon[1]

\* a ?? b : only null and undefined give b
Coalesce(opt, d) == IF opt = None THEN d ELSE opt[1]

\* (mutant) the caption is the value even when the record has a label
element_ValueOnly(item, qs) ==
  [value      |-> item.value,
   errorLevel |-> item.errorLevel,
   icon       |-> IF showSpoolmanIcon(qs) THEN Some("/favicon.svg") ELSE None,
   title      |-> IF showContent(qs) THEN Some(item.value) ELSE None]

\* the element of one record: the QR code of its value and, with showContent,
\* the title
element(item, qs) ==
  [value      |-> item.value,
   errorLevel |-> item.errorLevel,
   icon       |-> IF showSpoolmanIcon(qs) THEN Some("/favicon.svg") ELSE None,
   title      |-> IF showContent(qs) THEN Some(Coalesce(item.label, item.value)) ELSE None]

\* items.map(...)
elements(data, qs) == [i \in 1..Len(data) |-> element(data[i], qs)]

(***************************************************************************)
(* The props and hook state the component is given.                        *)
(***************************************************************************)
Settings(paper, custom, m, pm, sp, c, r, s, k, b) ==
  Some([paperSize |-> paper, customPaperSize |-> custom, margin |-> m,
        printerMargin |-> pm, spacing |-> sp, columns |-> c, rows |-> r,
        skipItems |-> s, itemCopies |-> k, borderShowMode |-> b])

Optional(S) == {None} \cup {Some(v) : v \in S}

Edges(t, b, l, r) == [top |-> t, bottom |-> b, left |-> l, right |-> r]

\* the list of n items, told apart by their identity
ItemList(n) == [i \in 1..n |-> i]

\* settings that vary the grid and leave paper, margins and spacing undefined;
\* rows is undefined, out of range, small, or the 8 of the dialog's default
GridSettings ==
  { Settings(None, None, None, None, None, c, r, s, k, None) :
      c \in Optional(-1..MaxColumns), r \in Optional(-1..MaxRows) \cup {Some(8)},
      s \in Optional(-1..MaxSkip), k \in Optional(-1..MaxCopies) }

\* item lists for the grid settings; 25 items fill the default 3 x 8 grid once
\* and leave one item for a second page
GridItems == { ItemList(n) : n \in 0..MaxItems } \cup { ItemList(25) }

\* paperSize with customPaperSize: presets, custom sizes, an unknown name, "",
\* and a name every object inherits
PaperChoices ==
  { <<None, None>>, <<Some("A5"), Some([width |-> 100, height |-> 150])>>,
    <<Some("A4"), None>>, <<Some("custom"), None>>,
    <<Some("custom"), Some([width |-> 100, height |-> 150])>>,
    <<Some("custom"), Some([width |-> 0, height |-> 150])>>,
    <<Some("custom"), Some([width |-> 30, height |-> -20])>>,
    <<Some("B5"), Some([width |-> 100, height |-> 150])>>, <<Some(""), None>>,
    <<Some("constructor"), None>> }

MarginChoices == { Some(Edges(10, 10, 10, 10)), Some(Edges(-2, 4, 1, 2)),
                   Some(Edges(50, 50, 50, 50)) }

PrinterMarginChoices == { Some(Edges(5, 5, 5, 5)), Some(Edges(12, 9, 15, 10)),
                          Some(Edges(0, 0, 0, 0)) }

SpacingChoices == { Some([horizontal |-> 0, vertical |-> 0]),
                    Some([horizontal |-> 2, vertical |-> 1]),
                    Some([horizontal |-> 20, vertical |-> 20]) }

BorderChoices == { None, Some("none"), Some("border") }

\* settings that vary paper, margins, spacing and border on a small grid
GeomSettings ==
  { Settings(pc[1], pc[2], m, pm, sp, Some(c), Some(r), None, None, b) :
      pc \in PaperChoices, m \in MarginChoices, pm \in PrinterMarginChoices,
      sp \in SpacingChoices, c \in (MaxColumns - 1)..MaxColumns,
      r \in (MaxRows - 1)..MaxRows, b \in BorderChoices }

GeomItems == { ItemList(n) : n \in {0, MaxGeomItems - 2, MaxGeomItems} }

\* a small family of props for repeated renders
RepeatSettings ==
  { Settings(None, None, Some(Edges(-2, 4, 1, 2)), None, None, Some(c), Some(2), None,
             Some(2), b) :
      c \in 1..2, b \in BorderChoices }

RepeatItems == { ItemList(n) : n \in 0..MaxRepeatItems }

\* settings whose columns, rows and itemCopies are 0 or the value the dialog
\* falls back to, columns and itemCopies also undefined, on the default paper and
\* on a custom one
ZeroSettings ==
  { Settings(pc[1], pc[2], pc[3], None, None, c, r, None, k, None) :
      pc \in { <<None, None, None>>,
               <<Some("custom"), Some([width |-> 100, height |-> 150]),
                 Some(Edges(-2, 4, 1, 2))>> },
      c \in Optional({0, 3}), r \in {Some(0), Some(8)}, k \in Optional({0, 1}) }

\* 25 items fill a 3 x 8 grid and leave one item for a second page
ZeroItems == { ItemList(MaxRepeatItems), ItemList(25) }

\* two settings records that are equal but for columns, rows and itemCopies
SameButGrid(a, b) ==
  /\ a # None /\ b # None
  /\ [a[1] EXCEPT !.columns = None, !.rows = None, !.itemCopies = None]
       = [b[1] EXCEPT !.columns = None, !.rows = None, !.itemCopies = None]

\* previewScale in percent: the saved default is 0.6; the slider and the number
\* input run from 0.1 to 1, and a cleared number input reports null (None)
PreviewScales == Optional({100})

NotRemembered ==
  [taken |-> FALSE, printSettings |-> None, items |-> <<>>, pages |-> <<>>, others |-> FALSE]

\* settings in which every field on its own is undefined or given; columns, rows
\* and itemCopies may also be given as 0
MixedSettings ==
  { Settings(paper, custom, m, pm, sp, c, r, s, k, b) :
      paper \in Optional({"custom"}),
      custom \in Optional({[width |-> 100, height |-> 150]}),
      m \in Optional({Edges(-2, 4, 1, 2)}),
      pm \in Optional({Edges(12, 9, 15, 10)}),
      sp \in Optional({[horizontal |-> 2, vertical |-> 1]}),
      c \in Optional({0, 2}), r \in Optional({0, 2}),
      s \in Optional({1}), k \in Optional({0, 2}),
      b \in Optional({"border"}) }

MixedItems == { ItemList(n) : n \in {1, MaxGeomItems} }

\* the content of a QRCodePrintSettings object: qs with the nested printSettings
QRCodePrintSettings(qs, ps) ==
  [showContent |-> qs.showContent, textSize |-> qs.textSize,
   showSpoolmanIcon |-> qs.showSpoolmanIcon, printSettings |-> ps]

QRCodeSettings(sc, ts, icon) ==
  [showContent |-> sc, textSize |-> ts, showSpoolmanIcon |-> icon]

\* the generic dialog is mounted without QR code settings and records
NoQRCode == QRCodeSettings(None, None, None)

\* one QR code record
QRCodeData(value, label, errorLevel) ==
  [value |-> value, label |-> label, errorLevel |-> errorLevel]

\* setPrintSettings has not been called; no layout has been computed
NotStored == [calls |-> 0, given |-> FALSE, value |-> None, thrown |-> FALSE]

NotConsumed == [taken |-> FALSE, printSettings |-> None, qrCodePrintSettings |-> NoQRCode]

Init ==
  /\ \/ /\ printSettings \in GridSettings \cup {None}
        /\ items \in GridItems
     \/ /\ printSettings \in GeomSettings
        /\ items \in GeomItems
     \/ /\ printSettings \in MixedSettings
        /\ items \in MixedItems
  /\ previewScale = 60
  /\ out = NotRendered
  /\ remembered = NotRemembered
  /\ dialog = "generic"
  /\ qrCodePrintSettings = NoQRCode
  /\ qrCodeData = <<>>
  /\ stored = NotStored
  /\ consumed = NotConsumed

InitRepeat ==
  /\ printSettings \in RepeatSettings
  /\ items \in RepeatItems
  /\ previewScale = 60
  /\ out = NotRendered
  /\ remembered = NotRemembered
  /\ dialog = "generic"
  /\ qrCodePrintSettings = NoQRCode
  /\ qrCodeData = <<>>
  /\ stored = NotStored
  /\ consumed = NotConsumed

(***************************************************************************)
(* Actions.                                                                *)
(***************************************************************************)
\* history: the settings a layout computation has read
Consume(ps, qs) == [taken |-> TRUE, printSettings |-> ps, qrCodePrintSettings |-> qs]

\* the component function runs on the current props and hook state
Render ==
  /\ dialog = "generic"
  /\ out' = PrintingDialog(printSettings, items, previewScale)
  /\ consumed' = Consume(printSettings, qrCodePrintSettings)
  /\ UNCHANGED <<printSettings, items, previewScale, remembered,
                 dialog, qrCodePrintSettings, qrCodeData, stored>>

\* QRCodePrintingDialog runs: it makes the elements and renders PrintingDialog
\* with them and with the nested printSettings
QRCodeRender ==
  /\ dialog = "qrcode"
  /\ items' = elements(qrCodeData, qrCodePrintSettings)
  /\ out' = PrintingDialog(printSettings, items', previewScale)
  /\ consumed' = Consume(printSettings, qrCodePrintSettings)
  /\ UNCHANGED <<printSettings, previewScale, remembered,
                 dialog, qrCodePrintSettings, qrCodeData, stored>>

\* the preview scale slider (value) and number input (value ?? 0.1) of a rendered
\* dialog: the handler sets the hook state; the component runs again later
SetPreviewScale(value) ==
  /\ out.status = "ok"
  /\ previewScale' = Coalesce(value, 10)
  /\ UNCHANGED <<printSettings, items, out, remembered,
                 dialog, qrCodePrintSettings, qrCodeData, stored, consumed>>

\* history: a render with props other than the remembered ones has happened since
NoteOther(ps, its) ==
  IF remembered.taken /\ <<ps, its>> # <<remembered.printSettings, remembered.items>>
  THEN [remembered EXCEPT !.others = TRUE]
  ELSE remembered

\* the host renders the component with other settings
NewSettings(ps) ==
  /\ printSettings' = ps
  /\ out' = PrintingDialog(ps, items, previewScale)
  /\ remembered' = NoteOther(ps, items)
  /\ consumed' = Consume(ps, qrCodePrintSettings)
  /\ UNCHANGED <<items, previewScale, dialog, qrCodePrintSettings, qrCodeData, stored>>

\* the host renders the component with another list of items
NewItems(its) ==
  /\ items' = its
  /\ out' = PrintingDialog(printSettings, its, previewScale)
  /\ remembered' = NoteOther(printSettings, its)
  /\ consumed' = Consume(printSettings, qrCodePrintSettings)
  /\ UNCHANGED <<printSettings, previewScale,
                 dialog, qrCodePrintSettings, qrCodeData, stored>>

\* history: the props and the pages of one completed render are kept for comparison
Remember ==
  /\ out.status = "ok"
  /\ ~remembered.taken
  /\ remembered' = [taken |-> TRUE, printSettings |-> printSettings, items |-> items,
                    pages |-> out.pages, others |-> FALSE]
  /\ UNCHANGED <<printSettings, items, previewScale, out,
                 dialog, qrCodePrintSettings, qrCodeData, stored, consumed>>

(***************************************************************************)
(* The controls of the dialogs.  A handler writes into the settings object *)
(* the dialog was given and passes that object to setPrintSettings.  The   *)
(* value a handler gets is a number, or None for the null a cleared number *)
(* input reports (a slider reports numbers only).                          *)
(***************************************************************************)
\* the setPrintSettings prop of PrintingDialog called with the object of content
\* ps: the host's own setter, or QRCodePrintingDialog's wrapper around it, which
\* writes ps into its settings object and passes that one on
setPrintSettings(ps) ==
  [calls  |-> stored.calls + 1,
   given  |-> TRUE,
   value  |-> IF dialog = "qrcode"
              THEN Some(QRCodePrintSettings(qrCodePrintSettings, ps)) ELSE ps,
   thrown |-> FALSE]

\* (mutant) a handler that also resets skipItems
Edit_ResetSkip(field, v) ==
  /\ out.status = "ok"
  /\ stored.calls < MaxEdits
  /\ IF printSettings = None
     THEN /\ stored' = [stored EXCEPT !.thrown = TRUE]
          /\ UNCHANGED printSettings
     ELSE /\ printSettings' =
               Some([printSettings[1] EXCEPT ![field] = Some(v), !.skipItems = None])
          /\ stored' = setPrintSettings(printSettings')
  /\ UNCHANGED <<items, previewScale, out, remembered,
                 dialog, qrCodePrintSettings, qrCodeData, consumed>>

\* printSettings.field = v; setPrintSettings(printSettings), in a handler of a
\* rendered dialog; writing a property of undefined throws a TypeError
Edit(field, v) ==
  /\ out.status = "ok"
  /\ stored.calls < MaxEdits
  /\ IF printSettings = None
     THEN /\ stored' = [stored EXCEPT !.thrown = TRUE]
          /\ UNCHANGED printSettings
     ELSE /\ printSettings' = Some([printSettings[1] EXCEPT ![field] = Some(v)])
          /\ stored' = setPrintSettings(printSettings')
  /\ UNCHANGED <<items, previewScale, out, remembered,
                 dialog, qrCodePrintSettings, qrCodeData, consumed>>

\* skipItems slider (value) and number input (value ?? 1)
SetSkipItems(value) == Edit("skipItems", Coalesce(value, 1))

\* itemCopies slider and number input (value ?? 1)
SetItemCopies(value) == Edit("itemCopies", Coalesce(value, 1))

\* the border radio group
SetBorderShowMode(value) == Edit("borderShowMode", value)

\* the paper size select
SetPaperSize(value) == Edit("paperSize", value)

\* the width and height inputs of the custom size (value ?? 0), written into the
\* customPaperSize object of the render; the inputs are hidden unless the dialog
\* was rendered with paperSize "custom"
SetCustomPaperSize(dim, value) ==
  /\ paperSize(consumed.printSettings) = "custom"
  /\ Edit("customPaperSize",
          [customPaperSize(printSettings) EXCEPT ![dim] = Coalesce(value, 0)])

\* columns slider and number input (value ?? 1)
SetColumns(value) == Edit("columns", Coalesce(value, 1))

\* rows slider and number input (value ?? 1)
SetRows(value) == Edit("rows", Coalesce(value, 1))

\* the slider and number input (value ?? 0) of one margin, written into the
\* margin object of the render
SetMargin(edge, value) ==
  Edit("margin", [margin(printSettings) EXCEPT ![edge] = Coalesce(value, 0)])

\* the same for one printer margin
SetPrinterMargin(edge, value) ==
  Edit("printerMargin", [printerMargin(printSettings) EXCEPT ![edge] = Coalesce(value, 0)])

\* the same for the horizontal or vertical spacing
SetSpacing(direction, value) ==
  Edit("spacing", [spacing(printSettings) EXCEPT ![direction] = Coalesce(value, 0)])

\* printSettings.field = v; setPrintSettings(printSettings), in a handler of the
\* extra settings of QRCodePrintingDialog
QRCodeEdit(field, v) ==
  /\ dialog = "qrcode"
  /\ out.status = "ok"
  /\ stored.calls < MaxEdits
  /\ qrCodePrintSettings' = [qrCodePrintSettings EXCEPT ![field] = Some(v)]
  /\ stored' = [calls  |-> stored.calls + 1,
                given  |-> TRUE,
                value  |-> Some(QRCodePrintSettings(qrCodePrintSettings', printSettings)),
                thrown |-> FALSE]
  /\ UNCHANGED <<printSettings, items, previewScale, out, remembered,
                 dialog, qrCodeData, consumed>>

\* the showContent switch
SetShowContent(checked) == QRCodeEdit("showContent", checked)

\* the text size slider and number input (value ?? 5), disabled unless the
\* dialog was rendered with showContent
SetTextSize(value) ==
  /\ showContent(consumed.qrCodePrintSettings)
  /\ QRCodeEdit("textSize", Coalesce(value, 5))

\* the showSpoolmanIcon switch
SetShowSpoolmanIcon(checked) == QRCodeEdit("showSpoolmanIcon", checked)

\* what the controls can report
SkipItemsValues == Optional({2})
ItemCopiesValues == Optional({2})
BorderShowModes == {"none", "border", "grid"}
\* two of the options of the select: a preset and "custom"
PaperSizeValues == {"A5", "custom"}
CustomPaperSizeValues == Optional({100})
ColumnsValues == Optional({2})
RowsValues == Optional({2})
MarginValues == Optional({12})
PrinterMarginValues == Optional({15})
SpacingValues == Optional({2})
TextSizeValues == Optional({3})
EdgeNames == {"top", "bottom", "left", "right"}

\* the settings the edited dialogs are mounted with: undefined, an empty object,
\* and a custom paper with every field given
EditSettings ==
  { None,
    Settings(None, None, None, None, None, None, None, None, None, None),
    Settings(Some("custom"), Some([width |-> 100, height |-> 150]),
             Some(Edges(10, 10, 10, 10)), Some(Edges(12, 9, 15, 10)),
             Some([horizontal |-> 2, vertical |-> 1]), Some(2), Some(2),
             Some(1), Some(1), Some("grid")) }

QRCodeRecords ==
  { QRCodeData("v1", None, None), QRCodeData("v2", Some("l2"), Some("H")),
    QRCodeData("v3", Some("l1"), None), QRCodeData("v2", None, Some("L")) }

\* lists of QR code records
QRCodeLists == UNION { [1..n -> QRCodeRecords] : n \in 0..MaxQRCodes }

QRCodeSettingsChoices ==
  { QRCodeSettings(sc, ts, icon) :
      sc \in Optional(BOOLEAN), ts \in Optional({0, 3}), icon \in Optional(BOOLEAN) }

\* a dialog about to be edited: the generic dialog with three items, or the QR
\* code dialog with two records
InitEdit ==
  /\ printSettings \in EditSettings
  /\ \/ /\ dialog = "generic"
        /\ items = ItemList(3)
        /\ qrCodePrintSettings = NoQRCode
        /\ qrCodeData = <<>>
     \/ /\ dialog = "qrcode"
        /\ items = <<>>
        /\ qrCodePrintSettings = QRCodeSettings(Some(FALSE), Some(4), None)
        /\ qrCodeData = << QRCodeData("v1", None, None),
                           QRCodeData("v2", Some("l2"), Some("H")) >>
  /\ previewScale = 60
  /\ out = NotRendered
  /\ remembered = NotRemembered
  /\ stored = NotStored
  /\ consumed = NotConsumed

\* the QR code dialog with any list of records and any settings of its own
InitQRCode ==
  /\ dialog = "qrcode"
  /\ printSettings \in EditSettings \ {None}
  /\ items = <<>>
  /\ qrCodePrintSettings \in QRCodeSettingsChoices
  /\ qrCodeData \in QRCodeLists
  /\ previewScale = 60
  /\ out = NotRendered
  /\ remembered = NotRemembered
  /\ stored = NotStored
  /\ consumed = NotConsumed

Next == Render

NextRepeat ==
  \/ Render
  \/ \E value \in PreviewScales : SetPreviewScale(value)
  \/ \E ps \in RepeatSettings : NewSettings(ps)
  \/ \E its \in RepeatItems : NewItems(its)
  \/ Remember

Spec == Init /\ [][Next]_vars

SpecRepeat == InitRepeat /\ [][NextRepeat]_vars

NextEdit ==
  \/ Render
  \/ QRCodeRender
  \/ \E value \in SkipItemsValues : SetSkipItems(value)
  \/ \E value \in ItemCopiesValues : SetItemCopies(value)
  \/ \E value \in BorderShowModes : SetBorderShowMode(value)
  \/ \E value \in PaperSizeValues : SetPaperSize(value)
  \/ \E dim \in {"width", "height"}, value \in CustomPaperSizeValues :
       SetCustomPaperSize(dim, value)
  \/ \E value \in ColumnsValues : SetColumns(value)
  \/ \E value \in RowsValues : SetRows(value)
  \/ \E edge \in EdgeNames, value \in MarginValues : SetMargin(edge, value)
  \/ \E edge \in EdgeNames, value \in PrinterMarginValues : SetPrinterMargin(edge, value)
  \/ \E direction \in {"horizontal", "vertical"}, value \in SpacingValues :
       SetSpacing(direction, value)
  \/ \E checked \in BOOLEAN : SetShowContent(checked)
  \/ \E value \in TextSizeValues : SetTextSize(value)
  \/ \E checked \in BOOLEAN : SetShowSpoolmanIcon(checked)

InitZero ==
  /\ printSettings \in ZeroSettings
  /\ items \in ZeroItems
  /\ previewScale = 60
  /\ out = NotRendered
  /\ remembered = NotRemembered
  /\ dialog = "generic"
  /\ qrCodePrintSettings = NoQRCode
  /\ qrCodeData = <<>>
  /\ stored = NotStored
  /\ consumed = NotConsumed

\* the host changes columns, rows and itemCopies between undefined, 0 and a value
NextZero ==
  \/ Render
  \/ \E ps \in ZeroSettings : SameButGrid(ps, printSettings) /\ NewSettings(ps)
  \/ Remember

SpecZero == InitZero /\ [][NextZero]_vars

SpecEdit == InitEdit /\ [][NextEdit]_vars

NextQRCode ==
  \/ QRCodeRender
  \/ \E checked \in BOOLEAN : SetShowContent(checked)
  \/ \E value \in TextSizeValues : SetTextSize(value)
  \/ \E checked \in BOOLEAN : SetShowSpoolmanIcon(checked)

SpecQRCode == InitQRCode /\ [][NextQRCode]_vars

(***************************************************************************)
(* Vocabulary of the properties.                                           *)
(***************************************************************************)
\* the settings field is present, and its value
Has(field) == printSettings # None /\ printSettings[1][field] # None
Val(field) == printSettings[1][field][1]

\* a render has completed without a throw
Rendered == out.status = "ok"

\* all rows of all pages in page order, and all cells in row-major order
AllRows == flatten([p \in 1..Len(out.pages) |-> out.pages[p].rows])
AllCells == flatten(AllRows)
Occupants == [i \in 1..Len(AllCells) |-> AllCells[i].item]

CeilDiv(a, b) == (a + b - 1) \div b

\* columns, rows, skipItems and itemCopies are given and within their constraints
ValidGrid ==
  /\ Has("columns") /\ Val("columns") >= 1
  /\ Has("rows") /\ Val("rows") >= 1
  /\ Has("skipItems") /\ Val("skipItems") >= 0
  /\ Has("itemCopies") /\ Val("itemCopies") >= 1

\* the occupant the expanded sequence has at place i: S placeholders, then each
\* item C times in input order
ExpectedAt(i) ==
  IF i <= Val("skipItems") THEN Placeholder
  ELSE items[((i - Val("skipItems") - 1) \div Val("itemCopies")) + 1]

ExpandedLength == Val("skipItems") + Len(items) * Val("itemCopies")

(***************************************************************************)
(* C1: with N items, skipItems = S >= 0 and itemCopies = C >= 1, the cells *)
(* of all pages hold exactly S placeholders, all before the first item,    *)
(* and exactly N*C items, each input item in exactly C cells.              *)
(***************************************************************************)
C1_CellCounts ==
  (Rendered /\ ValidGrid) =>
    LET occ == Occupants
        at(x) == { i \in 1..Len(occ) : occ[i] = x }
        real == { i \in 1..Len(occ) : occ[i] # Placeholder }
    IN  /\ Cardinality(at(Placeholder)) = Val("skipItems")
        /\ \A i \in at(Placeholder), j \in real : i < j
        /\ Cardinality(real) = Len(items) * Val("itemCopies")
        /\ \A k \in 1..Len(items) : Cardinality(at(items[k])) = Val("itemCopies")

C1_Witness ==
  /\ Rendered /\ ValidGrid
  /\ Val("skipItems") = 2 /\ Val("itemCopies") = 2 /\ Len(items) >= 3
  /\ Len(out.pages) >= 2
  /\ Cardinality({ i \in 1..Len(Occupants) : Occupants[i] = items[3] }) = 2

(***************************************************************************)
(* C2 as stated: the cells in page, row and column order are S             *)
(* placeholders, then each item C times in input order, then trailing      *)
(* empty cells that fill the last row up to `columns` cells.               *)
(***************************************************************************)
C2_PaddedOrder ==
  (Rendered /\ ValidGrid) =>
    LET padded == CeilDiv(ExpandedLength, Val("columns")) * Val("columns")
    IN  /\ Len(Occupants) = padded
        /\ \A i \in 1..Len(Occupants) :
             Occupants[i] = IF i <= ExpandedLength THEN ExpectedAt(i) ELSE Placeholder

(***************************************************************************)
(* C2 amended: the cells in page, row and column order are exactly S       *)
(* placeholders followed by each item C times in input order; no trailing  *)
(* cell is added, so the last row may hold fewer than `columns` cells.     *)
(***************************************************************************)
C2_Order ==
  (Rendered /\ ValidGrid) =>
    /\ Len(Occupants) = ExpandedLength
    /\ \A i \in 1..Len(Occupants) : Occupants[i] = ExpectedAt(i)

C2_Witness ==
  /\ Rendered /\ ValidGrid
  /\ Val("columns") = 3 /\ Val("skipItems") = 1 /\ Val("itemCopies") = 2
  /\ Occupants = <<0, 1, 1, 2, 2, 3, 3, 4, 4, 5, 5>>
  /\ Len(AllRows[Len(AllRows)]) = 2

(***************************************************************************)
(* C3: an expanded sequence of length L gives ceil(L/columns) rows and     *)
(* ceil(rows/`rows`) pages; every row but the last has `columns` cells,    *)
(* every page but the last has `rows` rows, and there is no empty row and  *)
(* no empty page.                                                          *)
(***************************************************************************)
C3_RowsAndPages ==
  (Rendered /\ ValidGrid) =>
    LET nrows == CeilDiv(ExpandedLength, Val("columns"))
    IN  /\ Len(AllRows) = nrows
        /\ Len(out.pages) = CeilDiv(nrows, Val("rows"))
        /\ \A r \in 1..Len(AllRows) :
             /\ Len(AllRows[r]) >= 1
             /\ r < Len(AllRows) => Len(AllRows[r]) = Val("columns")
        /\ \A p \in 1..Len(out.pages) :
             /\ Len(out.pages[p].rows) >= 1
             /\ p < Len(out.pages) => Len(out.pages[p].rows) = Val("rows")

\* columns = 3, rows = 8, no skip, one copy, 25 items: 9 rows on 2 pages, the
\* second page a single row with the one remaining item
C3_Witness ==
  /\ Rendered /\ ValidGrid
  /\ Val("columns") = 3 /\ Val("rows") = 8
  /\ Val("skipItems") = 0 /\ Val("itemCopies") = 1 /\ Len(items) = 25
  /\ Len(AllRows) = 9 /\ Len(out.pages) = 2
  /\ Len(out.pages[1].rows) = 8 /\ Len(out.pages[2].rows) = 1
  /\ Len(out.pages[2].rows[1]) = 1

(***************************************************************************)
(* Vocabulary of the geometry properties.                                  *)
(***************************************************************************)
\* paperSize is given and is "custom" with a given customPaperSize, or a preset
PaperGiven ==
  /\ Has("paperSize")
  /\ \/ Val("paperSize") = "custom" /\ Has("customPaperSize")
     \/ Val("paperSize") \in DOMAIN paperDimensions

GivenPaper ==
  IF Val("paperSize") = "custom" THEN Val("customPaperSize")
  ELSE paperDimensions[Val("paperSize")]

GridGiven ==
  /\ Has("columns") /\ Val("columns") >= 1
  /\ Has("rows") /\ Val("rows") >= 1

\* every field the cell geometry reads is given, columns and rows at least 1
GeometryGiven ==
  /\ PaperGiven /\ GridGiven
  /\ Has("margin") /\ Has("printerMargin") /\ Has("spacing")

\* the settings satisfy every constraint of the data model
ConstraintsMet ==
  /\ GeometryGiven
  /\ GivenPaper.width > 0 /\ GivenPaper.height > 0
  /\ 2 * Val("margin").left <= GivenPaper.width
  /\ 2 * Val("margin").right <= GivenPaper.width
  /\ 2 * Val("margin").top <= GivenPaper.height
  /\ 2 * Val("margin").bottom <= GivenPaper.height
  /\ \A e \in {"top", "bottom", "left", "right"} : Val("printerMargin")[e] >= 0
  /\ Val("spacing").horizontal >= 0 /\ Val("spacing").vertical >= 0

(***************************************************************************)
(* C4: every cell is (paperWidth - margin.left - margin.right -            *)
(* spacing.horizontal) / columns - spacing.horizontal wide and (paperHeight*)
(* - margin.top - margin.bottom - spacing.vertical) / rows -               *)
(* spacing.vertical high: spacing is subtracted before and after the       *)
(* division, and all cells share the one width and height.                 *)
(***************************************************************************)
C4_CellSize ==
  (Rendered /\ GeometryGiven) =>
    \A i \in 1..Len(AllCells) :
      LET w == AllCells[i].width
          h == AllCells[i].height
          availW == GivenPaper.width - Val("margin").left - Val("margin").right
                      - Val("spacing").horizontal
          availH == GivenPaper.height - Val("margin").top - Val("margin").bottom
                      - Val("spacing").vertical
      IN  /\ w.den > 0 /\ h.den > 0
          /\ w.num * Val("columns")
               = (availW - Val("spacing").horizontal * Val("columns")) * w.den
          /\ h.num * Val("rows")
               = (availH - Val("spacing").vertical * Val("rows")) * h.den

\* A4, side margins of 10, horizontal spacing 2, 3 columns: (210-10-10-2)/3 - 2 = 182/3
C4_Witness ==
  /\ Rendered /\ GeometryGiven
  /\ Val("paperSize") = "A4" /\ Val("columns") = 3
  /\ Val("margin").left = 10 /\ Val("margin").right = 10
  /\ Val("spacing").horizontal = 2
  /\ Len(AllCells) >= 3
  /\ \A i \in 1..Len(AllCells) : AllCells[i].width = [num |-> 182, den |-> 3]

(***************************************************************************)
(* C5 as stated: no cell has a negative width or height (a dimension that  *)
(* the formula makes <= 0 is clamped to 0).  Stated for settings that meet *)
(* every constraint of the data model.                                     *)
(***************************************************************************)
C5_NeverNegative ==
  (Rendered /\ ConstraintsMet) =>
    \A i \in 1..Len(AllCells) : AllCells[i].width.num >= 0 /\ AllCells[i].height.num >= 0

(***************************************************************************)
(* C6 as stated: with columns < 1 or rows < 1 (0 included) the layout      *)
(* call is rejected and returns no pages at all.  The render of such       *)
(* settings must leave no page.                                            *)
(***************************************************************************)
C6_GridRejected ==
  ( /\ out.status # "none"
    /\ \/ Has("columns") /\ Val("columns") < 1
       \/ Has("rows") /\ Val("rows") < 1 ) =>
    out.pages = <<>>

(***************************************************************************)
(* C7 as stated: with a paperSize that is neither "custom" nor a preset,   *)
(* or with "custom" and a customPaperSize dimension <= 0, the layout call  *)
(* is rejected and produces no pages.  The render of such settings must    *)
(* leave no page.                                                          *)
(***************************************************************************)
C7_PaperRejected ==
  ( /\ out.status # "none"
    /\ Has("paperSize")
    /\ \/ Val("paperSize") # "custom" /\ Val("paperSize") \notin DOMAIN paperDimensions
       \/ /\ Val("paperSize") = "custom" /\ Has("customPaperSize")
          /\ (Val("customPaperSize").width <= 0 \/ Val("customPaperSize").height <= 0) ) =>
    out.pages = <<>>

(***************************************************************************)
(* C8: with paperSize "custom" the paper is customPaperSize.width by       *)
(* customPaperSize.height whatever the presets are, otherwise it is the    *)
(* named preset's (A4 = 210 x 297); every page reports these dimensions.   *)
(***************************************************************************)
C8_PaperDimensions ==
  (Rendered /\ PaperGiven) =>
    \A p \in 1..Len(out.pages) :
      /\ out.pages[p].width = GivenPaper.width
      /\ out.pages[p].height = GivenPaper.height
      /\ Val("paperSize") = "A4" => out.pages[p].width = 210 /\ out.pages[p].height = 297
      /\ Val("paperSize") = "A5" => out.pages[p].width = 148 /\ out.pages[p].height = 210

C8_Witness ==
  /\ Rendered /\ PaperGiven
  /\ Val("paperSize") = "custom"
  /\ Val("customPaperSize") = [width |-> 100, height |-> 150]
  /\ Len(out.pages) >= 2
  /\ \A p \in 1..Len(out.pages) : out.pages[p].width = 100 /\ out.pages[p].height = 150

(***************************************************************************)
(* Edge padding: what a cell carries and what the settings ask for.        *)
(***************************************************************************)
ExtraPadding(edge) == Max(Val("printerMargin")[edge] - Val("margin")[edge], 0)

\* the cell at row r, column c (counted from 1) of page p is padded as if the
\* page's last row were row number lastRow
PaddedFor(p, r, c, lastRow) ==
  LET x == out.pages[p].rows[r][c]
  IN  /\ x.paddingLeft = (IF c = 1 THEN ExtraPadding("left") ELSE 0)
      /\ x.paddingRight = (IF c = Val("columns") THEN ExtraPadding("right") ELSE 0)
      /\ x.paddingTop = (IF r = 1 THEN ExtraPadding("top") ELSE 0)
      /\ x.paddingBottom = (IF r = lastRow THEN ExtraPadding("bottom") ELSE 0)
      /\ x.paddingLeft >= 0 /\ x.paddingRight >= 0
      /\ x.paddingTop >= 0 /\ x.paddingBottom >= 0

(***************************************************************************)
(* C9 as stated: on every page, a final page with fewer than `rows` rows   *)
(* included, the first column carries the extra left padding, the last     *)
(* column the right one, the first row the top one and the page's last row *)
(* the bottom one; every other edge padding is 0 and none is negative.     *)
(***************************************************************************)
C9_PagePadding ==
  (Rendered /\ GeometryGiven) =>
    \A p \in 1..Len(out.pages) :
      \A r \in 1..Len(out.pages[p].rows) :
        \A c \in 1..Len(out.pages[p].rows[r]) :
          PaddedFor(p, r, c, Len(out.pages[p].rows))

(***************************************************************************)
(* C9 amended: the bottom padding is carried by the cells of row number    *)
(* `rows` of a page and the right padding by the cells of column number    *)
(* `columns`: the last row of a page with fewer than `rows` rows carries   *)
(* no bottom padding, and a row with fewer than `columns` cells carries no *)
(* right padding.  Left and top padding, the 0 elsewhere and the absence   *)
(* of negative padding are as stated.                                      *)
(***************************************************************************)
C9_GridPadding ==
  (Rendered /\ GeometryGiven) =>
    \A p \in 1..Len(out.pages) :
      \A r \in 1..Len(out.pages[p].rows) :
        \A c \in 1..Len(out.pages[p].rows[r]) :
          PaddedFor(p, r, c, Val("rows"))

\* 2 x 2 grid, 5 items: the first page is full and its second row carries the
\* bottom padding; the second page has one row of one cell, with no bottom and no
\* right padding
C9_Witness ==
  /\ Rendered /\ GeometryGiven
  /\ Val("columns") = 2 /\ Val("rows") = 2 /\ Len(items) = 5
  /\ ExtraPadding("bottom") > 0 /\ ExtraPadding("right") > 0
  /\ ExtraPadding("left") > 0 /\ ExtraPadding("top") > 0
  /\ Len(out.pages) = 2 /\ Len(out.pages[2].rows) = 1 /\ Len(out.pages[2].rows[1]) = 1
  /\ out.pages[1].rows[2][2].paddingBottom = ExtraPadding("bottom")
  /\ out.pages[1].rows[2][2].paddingRight = ExtraPadding("right")
  /\ out.pages[2].rows[1][1].paddingBottom = 0
  /\ out.pages[2].rows[1][1].paddingRight = 0
  /\ out.pages[2].rows[1][1].paddingTop = ExtraPadding("top")

(***************************************************************************)
(* C10: a render with the settings and items of a remembered render gives  *)
(* the pages of the remembered render, whatever was rendered in between    *)
(* and whatever the hook state has become.                                 *)
(***************************************************************************)
C10_SameInputsSamePages ==
  ( /\ remembered.taken /\ Rendered
    /\ printSettings = remembered.printSettings
    /\ items = remembered.items ) =>
    out.pages = remembered.pages

C10_Witness ==
  /\ remembered.taken /\ remembered.others /\ Rendered
  /\ printSettings = remembered.printSettings
  /\ items = remembered.items
  /\ previewScale = 100 /\ out.scale = 100
  /\ Len(out.pages) >= 2
  /\ out.pages = remembered.pages


(***************************************************************************)
(* C11 as stated: a settings value that a layout computation has read is   *)
(* never changed afterwards; the computation changes no field of it, and a *)
(* user edit, in the generic and in the QR code dialog, hands the store a  *)
(* new settings value: the object the dialog was given keeps the content   *)
(* the computation has read, and is not the object passed to the store.    *)
(***************************************************************************)
C11_ConsumedNeverMutated ==
  consumed.taken =>
    /\ printSettings = consumed.printSettings
    /\ qrCodePrintSettings = consumed.qrCodePrintSettings
    /\ stored.calls > 0 => ~stored.given

(***************************************************************************)
(* The data model's defaults and constraints.                              *)
(***************************************************************************)
Stated ==
  [paperSize       |-> "A4",
   customPaperSize |-> [width |-> 210, height |-> 297],
   margin          |-> [top |-> 10, bottom |-> 10, left |-> 10, right |-> 10],
   printerMargin   |-> [top |-> 5, bottom |-> 5, left |-> 5, right |-> 5],
   spacing         |-> [horizontal |-> 0, vertical |-> 0],
   columns         |-> 3,
   rows            |-> 8,
   skipItems       |-> 0,
   itemCopies      |-> 1,
   borderShowMode  |-> "grid"]

\* the field as supplied, or its stated default when it, or the whole record, is
\* missing
Eff(field) == IF Has(field) THEN Val(field) ELSE Stated[field]

EffPaper ==
  IF Eff("paperSize") = "custom" THEN Eff("customPaperSize")
  ELSE paperDimensions[Eff("paperSize")]

\* every field that is present satisfies its constraint
PresentFieldsValid ==
  /\ Has("paperSize") => Val("paperSize") \in DOMAIN paperDimensions \cup {"custom"}
  /\ Has("customPaperSize") =>
       Val("customPaperSize").width > 0 /\ Val("customPaperSize").height > 0
  /\ Has("printerMargin") =>
       \A edge \in {"top", "bottom", "left", "right"} : Val("printerMargin")[edge] >= 0
  /\ Has("spacing") => Val("spacing").horizontal >= 0 /\ Val("spacing").vertical >= 0
  /\ Has("columns") => Val("columns") >= 1
  /\ Has("rows") => Val("rows") >= 1
  /\ Has("skipItems") => Val("skipItems") >= 0
  /\ Has("itemCopies") => Val("itemCopies") >= 1
  /\ Has("borderShowMode") => Val("borderShowMode") \in {"none", "border", "grid"}
  /\ Has("margin") =>
       /\ 2 * Val("margin").left <= EffPaper.width
       /\ 2 * Val("margin").right <= EffPaper.width
       /\ 2 * Val("margin").top <= EffPaper.height
       /\ 2 * Val("margin").bottom <= EffPaper.height

EffPadding(edge) == Max(Eff("printerMargin")[edge] - Eff("margin")[edge], 0)

(***************************************************************************)
(* C12: for every missing field, and for a missing record, the layout is   *)
(* the one of the stated default (paperSize "A4", customPaperSize 210 x    *)
(* 297, margin 10, printerMargin 5, spacing 0, columns 3, rows 8,          *)
(* skipItems 0, itemCopies 1, borderShowMode "grid"), and a present field  *)
(* that satisfies its constraint is used as supplied: paper, page area,    *)
(* table spacing, cell size, edge padding, borders, occupants, row and     *)
(* page lengths all follow the supplied-or-default values.                 *)
(***************************************************************************)
C12_DefaultsAndSupplied ==
  (Rendered /\ PresentFieldsValid) =>
    /\ out.borderSpacing = Eff("spacing")
    /\ \A p \in 1..Len(out.pages) :
         /\ out.pages[p].width = EffPaper.width
         /\ out.pages[p].height = EffPaper.height
         /\ out.pages[p].border = "none" <=> Eff("borderShowMode") = "none"
         /\ out.pages[p].areaWidth
              = EffPaper.width - Eff("margin").left - Eff("margin").right
         /\ out.pages[p].areaHeight
              = EffPaper.height - Eff("margin").top - Eff("margin").bottom
         /\ out.pages[p].marginTop.mm = Eff("margin").top
         /\ out.pages[p].marginLeft.mm = Eff("margin").left
         /\ out.pages[p].marginRight.mm = Eff("margin").right
         /\ out.pages[p].marginBottom.mm = Eff("margin").bottom
         /\ p < Len(out.pages) => Len(out.pages[p].rows) = Eff("rows")
         /\ \A r \in 1..Len(out.pages[p].rows) :
              \A c \in 1..Len(out.pages[p].rows[r]) :
                LET x == out.pages[p].rows[r][c]
                IN  /\ x.paddingLeft = (IF c = 1 THEN EffPadding("left") ELSE 0)
                    /\ x.paddingRight =
                         (IF c = Eff("columns") THEN EffPadding("right") ELSE 0)
                    /\ x.paddingTop = (IF r = 1 THEN EffPadding("top") ELSE 0)
                    /\ x.paddingBottom =
                         (IF r = Eff("rows") THEN EffPadding("bottom") ELSE 0)
    /\ \A i \in 1..Len(AllCells) :
         LET x == AllCells[i]
         IN  /\ x.border = "none" <=> Eff("borderShowMode") # "grid"
             /\ x.width.den > 0 /\ x.height.den > 0
             /\ x.width.num * Eff("columns")
                  = (EffPaper.width - Eff("margin").left - Eff("margin").right
                       - Eff("spacing").horizontal
                       - Eff("spacing").horizontal * Eff("columns")) * x.width.den
             /\ x.height.num * Eff("rows")
                  = (EffPaper.height - Eff("margin").top - Eff("margin").bottom
                       - Eff("spacing").vertical
                       - Eff("spacing").vertical * Eff("rows")) * x.height.den
    /\ \A r \in 1..Len(AllRows) : r < Len(AllRows) => Len(AllRows[r]) = Eff("columns")
    /\ Len(Occupants) = Eff("skipItems") + Len(items) * Eff("itemCopies")
    /\ \A i \in 1..Len(Occupants) :
         Occupants[i] = IF i <= Eff("skipItems") THEN Placeholder
                        ELSE items[((i - Eff("skipItems") - 1) \div Eff("itemCopies")) + 1]

\* no settings record at all and 25 items: two A4 pages of 3 columns, the first
\* with 8 rows, cells (210-10-10)/3 wide and (297-10-10)/8 high, no padding, grid
\* borders, every item once
C12_Witness ==
  /\ Rendered /\ printSettings = None /\ Len(items) = 25
  /\ Len(out.pages) = 2 /\ Len(out.pages[1].rows) = 8 /\ Len(AllRows[1]) = 3
  /\ out.pages[1].width = 210 /\ out.pages[1].height = 297
  /\ out.pages[1].areaWidth = 190 /\ out.pages[1].areaHeight = 277
  /\ out.pages[1].marginTop = [mm |-> 10, px |-> 1]
  /\ out.borderSpacing = [horizontal |-> 0, vertical |-> 0]
  /\ AllCells[1].width = [num |-> 190, den |-> 3]
  /\ AllCells[1].height = [num |-> 277, den |-> 8]
  /\ AllCells[1].paddingLeft = 0 /\ AllCells[1].paddingTop = 0
  /\ AllCells[1].border = "1px solid #000"
  /\ Occupants = items

(***************************************************************************)
(* C13 as stated: an out-of-range skipItems or itemCopies (columns and     *)
(* rows at least 1, the paper known) never makes the layout fail; the      *)
(* value is clamped into its range and the layout completes: a negative    *)
(* skipItems gives 0 placeholders, an itemCopies below 1 gives one cell    *)
(* per item.                                                               *)
(***************************************************************************)
C13_ClampedNotRejected ==
  ( /\ out.status # "none"
    /\ Has("paperSize") => Val("paperSize") \in DOMAIN paperDimensions \cup {"custom"}
    /\ Has("columns") => Val("columns") >= 1
    /\ Has("rows") => Val("rows") >= 1 ) =>
    /\ Rendered
    /\ Len(Occupants) = Max(Eff("skipItems"), 0) + Len(items) * Max(Eff("itemCopies"), 1)
    /\ \A i \in 1..Len(Occupants) :
         (Occupants[i] = Placeholder) <=> (i <= Max(Eff("skipItems"), 0))

(***************************************************************************)
(* C14 as stated: after any sequence of edits made through the controls    *)
(* (sliders, number inputs, a cleared input that reports null, the paper   *)
(* size select), starting from valid settings, the settings handed to the  *)
(* store have columns >= 1, rows >= 1, a paperSize that is a preset or     *)
(* "custom", and both customPaperSize dimensions > 0.                      *)
(***************************************************************************)
C14_EditsStayValid ==
  (stored.calls > 0) =>
    /\ Has("columns") => Val("columns") >= 1
    /\ Has("rows") => Val("rows") >= 1
    /\ Has("paperSize") => Val("paperSize") \in DOMAIN paperDimensions \cup {"custom"}
    /\ Has("customPaperSize") =>
         Val("customPaperSize").width > 0 /\ Val("customPaperSize").height > 0

(***************************************************************************)
(* Geometry: the pages without their borders, and without the width of    *)
(* the border that the margins of the page area are reduced by.            *)
(***************************************************************************)
Geometry(pgs) ==
  [p \in 1..Len(pgs) |->
     [width  |-> pgs[p].width,
      height |-> pgs[p].height,
      areaWidth  |-> pgs[p].areaWidth,
      areaHeight |-> pgs[p].areaHeight,
      margins |-> <<pgs[p].marginTop.mm, pgs[p].marginLeft.mm,
                    pgs[p].marginRight.mm, pgs[p].marginBottom.mm>>,
      rows   |-> [r \in 1..Len(pgs[p].rows) |->
                    [c \in 1..Len(pgs[p].rows[r]) |->
                       LET x == pgs[p].rows[r][c]
                       IN  [item |-> x.item, width |-> x.width, height |-> x.height,
                            paddingLeft |-> x.paddingLeft, paddingRight |-> x.paddingRight,
                            paddingTop |-> x.paddingTop,
                            paddingBottom |-> x.paddingBottom]]]]]

\* each margin of the page area is reduced by the width of the area's border, 1px
\* or none: the content of the area stays where the margin puts it
BorderCompensated(pgs) ==
  \A p \in 1..Len(pgs) :
    LET px == IF pgs[p].border = "none" THEN 0 ELSE 1
    IN  /\ pgs[p].marginTop.px = px /\ pgs[p].marginLeft.px = px
        /\ pgs[p].marginRight.px = px /\ pgs[p].marginBottom.px = px

\* two settings records that differ in borderShowMode and in nothing else
DifferOnlyInBorder(a, b) ==
  /\ a # None /\ b # None
  /\ a[1].borderShowMode # b[1].borderShowMode
  /\ [a[1] EXCEPT !.borderShowMode = None] = [b[1] EXCEPT !.borderShowMode = None]

(***************************************************************************)
(* C15: borderShowMode does not influence geometry: a layout of the items  *)
(* of a remembered layout, with settings that differ from the remembered   *)
(* ones only in borderShowMode, has the same pages and rows, the same      *)
(* occupants in the same positions, the same cell width and height, the    *)
(* same edge paddings and the same page dimensions, and the same size and  *)
(* margins of the page area; what differs with the borders is the 1px that *)
(* a border takes off each margin of the page area, its own width.         *)
(***************************************************************************)
C15_BorderNotGeometry ==
  ( /\ remembered.taken /\ Rendered
    /\ items = remembered.items
    /\ DifferOnlyInBorder(printSettings, remembered.printSettings) ) =>
    /\ Geometry(out.pages) = Geometry(remembered.pages)
    /\ BorderCompensated(out.pages) /\ BorderCompensated(remembered.pages)

C15_Witness ==
  /\ remembered.taken /\ Rendered
  /\ items = remembered.items
  /\ DifferOnlyInBorder(printSettings, remembered.printSettings)
  /\ printSettings[1].borderShowMode = Some("none")
  /\ remembered.printSettings[1].borderShowMode = None
  /\ Len(out.pages) >= 2
  /\ out.pages[1].rows[1][1].paddingLeft > 0
  /\ out.pages[1].rows[1][1].border = "none"
  /\ remembered.pages[1].rows[1][1].border = "1px solid #000"
  /\ out.pages[1].marginTop = [mm |-> -2, px |-> 0]
  /\ remembered.pages[1].marginTop = [mm |-> -2, px |-> 1]
  /\ Geometry(out.pages) = Geometry(remembered.pages)

(***************************************************************************)
(* C16: the QR code dialog maps its records to items of the same number    *)
(* and order, the i-th item made from the i-th record's value and          *)
(* errorLevel; an item has a caption exactly when showContent is true      *)
(* (true when unset), and the caption is the record's label when it has    *)
(* one and its value otherwise; these items, with the nested               *)
(* printSettings, are what the layout is computed from.                    *)
(***************************************************************************)
C16_QRCodeItems ==
  ( /\ dialog = "qrcode" /\ consumed.taken
    /\ consumed.qrCodePrintSettings = qrCodePrintSettings ) =>
    LET shown == qrCodePrintSettings.showContent \in {None, Some(TRUE)}
    IN  /\ Len(items) = Len(qrCodeData)
        /\ \A i \in 1..Len(items) :
             /\ items[i].value = qrCodeData[i].value
             /\ items[i].errorLevel = qrCodeData[i].errorLevel
             /\ items[i].title # None <=> shown
             /\ shown => items[i].title =
                  (IF qrCodeData[i].label # None THEN qrCodeData[i].label
                   ELSE Some(qrCodeData[i].value))
        /\ consumed.printSettings = printSettings
        /\ Rendered
        /\ \A p \in 1..Len(out.pages) : out.pages[p].width = EffPaper.width
        /\ Len(Occupants) = Eff("skipItems") + Len(items) * Eff("itemCopies")
        /\ \A i \in 1..Len(items) :
             Occupants[Eff("skipItems") + (i - 1) * Eff("itemCopies") + 1] = items[i]

\* two records, the first with a label, showContent unset: the captions are the
\* first record's label and the second record's value
C16_Witness ==
  /\ dialog = "qrcode" /\ consumed.taken /\ Rendered
  /\ consumed.qrCodePrintSettings = qrCodePrintSettings
  /\ qrCodePrintSettings.showContent = None
  /\ qrCodeData = << QRCodeData("v2", Some("l2"), Some("H")), QRCodeData("v1", None, None) >>
  /\ Len(items) = 2
  /\ items[1].title = Some("l2") /\ items[1].errorLevel = Some("H")
  /\ items[2].title = Some("v1")
  /\ Len(AllCells) >= 2
  /\ AllCells[Len(AllCells)].item = items[2]

(***************************************************************************)
(* Vocabulary of the edit steps.                                           *)
(***************************************************************************)
SettingsFields ==
  {"paperSize", "customPaperSize", "margin", "printerMargin", "spacing", "columns",
   "rows", "skipItems", "itemCopies", "borderShowMode"}

GroupFields == {"customPaperSize", "margin", "printerMargin", "spacing"}

\* the fields of the layout settings, and of the QR code settings, that a step
\* changes
ChangedFields ==
  { f \in SettingsFields : printSettings'[1][f] # printSettings[1][f] }

ChangedQRCodeFields ==
  { f \in {"showContent", "textSize", "showSpoolmanIcon"} :
      qrCodePrintSettings'[f] # qrCodePrintSettings[f] }

\* the components in which the group f after the step differs from the group
\* before it, a missing group counting as its default
ChangedComponents(f) ==
  LET before == IF printSettings[1][f] = None THEN Stated[f] ELSE printSettings[1][f][1]
      after == printSettings'[1][f][1]
  IN  { k \in DOMAIN before : after[k] # before[k] }

(***************************************************************************)
(* C17: a handler that forwards settings to the store forwards them once,  *)
(* in their content after the edit, and has changed a single field: an     *)
(* edit of a layout field changes no other layout field and no field of    *)
(* the QR code settings (showContent, textSize, showSpoolmanIcon), an edit *)
(* of a component of margin, printerMargin, spacing or customPaperSize     *)
(* changes no other component of the group, the components of a group that *)
(* was missing taking their defaults; an edit of a QR code field changes   *)
(* no layout field.                                                        *)
(***************************************************************************)
C17_EditFrame ==
  [][ stored' # stored /\ ~stored'.thrown =>
        /\ stored'.calls = stored.calls + 1
        /\ stored'.value =
             (IF dialog = "qrcode"
              THEN Some(QRCodePrintSettings(qrCodePrintSettings', printSettings'))
              ELSE printSettings')
        /\ dialog' = dialog /\ items' = items /\ qrCodeData' = qrCodeData
        /\ \/ /\ printSettings # None /\ printSettings' # None
              /\ Cardinality(ChangedFields) <= 1
              /\ \A f \in ChangedFields :
                   /\ printSettings'[1][f] # None
                   /\ f \in GroupFields => Cardinality(ChangedComponents(f)) <= 1
              /\ qrCodePrintSettings' = qrCodePrintSettings
           \/ /\ printSettings' = printSettings
              /\ dialog = "qrcode"
              /\ Cardinality(ChangedQRCodeFields) <= 1
              /\ \A f \in ChangedQRCodeFields : qrCodePrintSettings'[f] # None ]_vars

\* the QR code dialog, mounted with empty layout settings, after its left margin
\* input was set to 12: the margin group is the default with left = 12, nothing
\* else is set, the QR code fields are as they were, and the store has received
\* the QR code settings with these layout settings once
C17_Witness ==
  /\ dialog = "qrcode" /\ stored.calls = 1 /\ stored.given
  /\ printSettings =
       Settings(None, None, Some(Edges(10, 10, 12, 10)), None, None, None, None,
                None, None, None)
  /\ qrCodePrintSettings = QRCodeSettings(Some(FALSE), Some(4), None)
  /\ stored.value = Some(QRCodePrintSettings(qrCodePrintSettings, printSettings))

(***************************************************************************)
(* C18: a 0 for columns, rows or itemCopies is treated like a missing      *)
(* value: for the same items and the same other fields, the layout with    *)
(* columns = 0 is the layout with columns = 3 and with no columns, the     *)
(* layout with rows = 0 is the one with rows = 8, and the layout with      *)
(* itemCopies = 0 is the one with itemCopies = 1.                          *)
(***************************************************************************)
C18_ZeroLikeMissing ==
  ( /\ remembered.taken /\ Rendered
    /\ items = remembered.items
    /\ SameButGrid(printSettings, remembered.printSettings)
    /\ \A f \in {"columns", "rows", "itemCopies"} :
         LET a == printSettings[1][f]
             b == remembered.printSettings[1][f]
         IN  a = b \/ {a, b} \subseteq {None, Some(0), Some(Stated[f])} ) =>
    out.pages = remembered.pages

\* 25 items laid out with columns = 3, rows = 8, itemCopies = 1, and then with
\* all three 0: the same two pages, the first of 8 rows of 3 cells
C18_Witness ==
  /\ remembered.taken /\ Rendered
  /\ items = remembered.items /\ Len(items) = 25
  /\ SameButGrid(printSettings, remembered.printSettings)
  /\ printSettings[1].columns = Some(0) /\ remembered.printSettings[1].columns = Some(3)
  /\ printSettings[1].rows = Some(0) /\ remembered.printSettings[1].rows = Some(8)
  /\ printSettings[1].itemCopies = Some(0)
  /\ remembered.printSettings[1].itemCopies = Some(1)
  /\ Len(out.pages) = 2 /\ Len(out.pages[1].rows) = 8 /\ Len(out.pages[1].rows[1]) = 3
  /\ out.pages = remembered.pages
====
